---- MODULE Spec2Model ----
(***************************************************************************)
(* The RTMP relay server of rtmp_original.py as a state machine: the       *)
(* session table (RTMPServer.client_states), the process-wide registries   *)
(* LiveUsers and PlayerUsers, one task per accepted connection             *)
(* (RTMPServer.handle_client) and the bytes-level writes on each           *)
(* connection, abstracted to the sequence of messages handed to            *)
(* writer.write().                                                         *)
(*                                                                         *)
(* A step of the model is what one task does between two suspension points *)
(* (await reader.readexactly / await writer.drain).  A drain may or may    *)
(* not suspend; a step per drain covers both, because resuming at once is  *)
(* one of the schedules.                                                   *)
(***************************************************************************)
EXTENDS Integers, Sequences, FiniteSets, TLC

\* ------------------------------------------------------------------ bounds
MaxSessions == 2        \* connections accepted in one run
MaxMsgs == 5            \* inbound messages dispatched in one run (all sessions)

\* ------------------------------------------------------- program constants
RTMP_TYPE_SET_CHUNK_SIZE == 1
RTMP_TYPE_WINDOW_ACKNOWLEDGEMENT_SIZE == 5
RTMP_TYPE_SET_PEER_BANDWIDTH == 6
RTMP_TYPE_AUDIO == 8
RTMP_TYPE_VIDEO == 9
RTMP_TYPE_DATA == 18
RTMP_TYPE_INVOKE == 20
RTMP_TYPE_ACKNOWLEDGEMENT == 3
RTMP_TYPE_ABORT == 2
RTMP_TYPE_METADATA == 22
PROTOCOL_CHANNEL_ID == 2
MAX_CHUNK_SIZE == 10485760

Ids == 1..MaxSessions
AppNames == {"live", "cam"}
Apps == AppNames \cup {""}          \* ClientState.app starts as ''
StreamKeys == {"", "key"}           \* first argument of publish
StreamIds == {0, 1}                 \* message stream id of the inbound header
None == "None"

AudioPayloads == {"aac_seq", "aac_raw"}
VideoPayloads == {"avc_seq", "avc_key", "avc_inter"}
\* A DATA message by its first AMF fields: @setDataFrame onMetaData,
\* @setDataFrame with another second field, another first field.
DataPayloads == {"onMetaData", "setDataFrame_other", "other"}

VARIABLES
    client_states,   \* RTMPServer.client_states: session id -> ClientState
    LiveUsers,       \* app -> publisher record
    PlayerUsers,     \* app -> dict of players: ids in insertion order, and the
                     \* session whose play created the dict, which tells one
                     \* dict object from the next one created for the same app
    pc,              \* position of each connection's task
    out,             \* messages handed to each connection's writer.write()
    writerClosed,    \* writer.close() has been called on the connection
    todo,            \* replies a suspended handle_connect_command still sends
    relay,           \* local state of a suspended handle_audio_data loop
    clock            \* inbound messages dispatched so far

\* The chunk codec of one connection (fields of its ClientState), with the
\* bytes on its socket abstracted to chunks.
VARIABLES
    IncomingPackets,              \* chunk stream id -> reassembly slot
    chunk_size,                   \* inbound chunk size
    out_chunk_size,               \* outbound chunk size
    window_acknowledgement_size,
    inAckSize,
    inLastAck,
    streams,                      \* stream counter of createStream
    lastWriteHeaders,             \* message stream id -> cached outbound header
    nextChannelId,
    cpc,                          \* "run", or "done" once get_chunk_data raised
    wire,                         \* chunks writeMessage has written, not yet read
    written,                      \* messages handed to writeMessage, in order
    sent,                         \* messages the server wrote in reply to chunks
    dispatched,                   \* packets handed to handle_rtmp_packet, in order
    bytesIn,                      \* bytes read from the socket so far
    chunks                        \* chunks read so far

sessionVars == <<client_states, LiveUsers, PlayerUsers, pc, out, writerClosed,
                 todo, relay, clock>>

codecVars == <<IncomingPackets, chunk_size, out_chunk_size,
               window_acknowledgement_size, inAckSize, inLastAck, streams,
               lastWriteHeaders, nextChannelId, cpc, wire, written, sent,
               dispatched, bytesIn, chunks>>

vars == <<client_states, LiveUsers, PlayerUsers, pc, out, writerClosed, todo,
          relay, clock, IncomingPackets, chunk_size, out_chunk_size,
          window_acknowledgement_size, inAckSize, inLastAck, streams,
          lastWriteHeaders, nextChannelId, cpc, wire, written, sent,
          dispatched, bytesIn, chunks>>

\* ------------------------------------------------------------------ helpers
Without(f, k) == [x \in (DOMAIN f) \ {k} |-> f[x]]

Range(q) == {q[i] : i \in 1..Len(q)}

RemoveId(q, s) == SelectSeq(q, LAMBDA x : x # s)

Message(type, name, level, code, id, streamId, time, payload, src) ==
    [type |-> type, name |-> name, level |-> level, code |-> code, id |-> id,
     streamId |-> streamId, time |-> time, payload |-> payload, src |-> src]

\* tcUrl stands for the four attributes handle_connect_command copies after
\* its test of app: tcUrl, swfUrl, flashVer, objectEncoding.
NewClientState ==
    [app |-> "", tcUrl |-> None, streamPath |-> "", publishStreamId |-> 0,
     Players |-> {}, metaDataPayload |-> None, aacSequenceHeader |-> None,
     avcSequenceHeader |-> None]

NoRelay == [active |-> FALSE, msg |-> Message(0, "", "", "", 0, 0, 0, "", 0),
            app |-> "", creator |-> 0, size |-> 0, visited |-> {}]

\* writer.write(data) of RTMPServer.send: out records, in order, what was
\* handed to the connection's writer.
PrependWrite(o, t, m) == [o EXCEPT ![t] = <<m>> \o @]   \* a write that overtakes

Write(o, t, m) == [o EXCEPT ![t] = Append(@, m)]

\* RTMPServer.writeMessage: nothing is written for an id that is not in the
\* session table; a failing send is logged and swallowed.
writeMessage(o, t, m) == IF t \in DOMAIN client_states THEN Write(o, t, m) ELSE o

StatusMessage(sid, level, code) ==
    Message(RTMP_TYPE_INVOKE, "onStatus", level, code, sid, 0, 0, "", 0)

\* The registries and the session table of a server that has just started.
NoSessions ==
    /\ client_states = << >>
    /\ LiveUsers = << >>
    /\ PlayerUsers = << >>
    /\ pc = [s \in Ids |-> "free"]
    /\ out = [s \in Ids |-> << >>]
    /\ writerClosed = [s \in Ids |-> FALSE]
    /\ todo = [s \in Ids |-> << >>]
    /\ relay = [s \in Ids |-> NoRelay]
    /\ clock = 0

\* The codec fields of a new ClientState, nothing read or written yet.
\* ClientState() with the two chunk sizes as given.
CodecState(inSize, outSize) ==
    /\ IncomingPackets = << >>
    /\ chunk_size = inSize
    /\ out_chunk_size = outSize
    /\ window_acknowledgement_size = 5000000
    /\ inAckSize = 0
    /\ inLastAck = 0
    /\ streams = 0
    /\ lastWriteHeaders = << >>
    /\ nextChannelId = PROTOCOL_CHANNEL_ID + 1
    /\ cpc = "run"
    /\ wire = << >>
    /\ written = << >>
    /\ sent = << >>
    /\ dispatched = << >>
    /\ bytesIn = 0
    /\ chunks = 0

\* ClientState(): chunk_size = 128, out_chunk_size = 4096.
NewCodec == CodecState(128, 4096)

Init == NoSessions /\ NewCodec

\* ------------------------------------------------------------- disconnect
\* RTMPServer.disconnect(client_id), run on the session table cs (the table as
\* the handler that raised has left it).
\* The first block without its test of client_id: the slot of the session's
\* current app is deleted whoever it names.
LiveUsersForgetApp(cs, s) ==
    IF s \in DOMAIN cs /\ cs[s].app \in DOMAIN LiveUsers
    THEN Without(LiveUsers, cs[s].app)
    ELSE LiveUsers

\* First block: the publisher slot of the session's current app is deleted
\* when it names this session.
LiveUsersAfterDisconnect(cs, s) ==
    IF s \in DOMAIN cs
    THEN LET a == cs[s].app
         IN IF a \in DOMAIN LiveUsers /\ LiveUsers[a].client_id = s
            THEN Without(LiveUsers, a)
            ELSE LiveUsers
    ELSE LiveUsers

\* Second block: the session is removed from the fan-out table of the
\* publisher that the (remaining) slot of its current app names.
PlayersAfterDisconnect(cs, s) ==
    IF s \in DOMAIN cs
    THEN LET a == cs[s].app
             L == LiveUsersAfterDisconnect(cs, s)
         IN IF a \in DOMAIN L
            THEN LET p == L[a].client_id
                 IN IF p \in DOMAIN cs /\ s \in cs[p].Players
                    THEN [cs EXCEPT ![p].Players = @ \ {s}]
                    ELSE cs
            ELSE cs
    ELSE cs

\* Third block: the session is removed from the player dict of its current
\* app, and the dict is deleted when it is left empty.
PlayerUsersAfterDisconnect(cs, s) ==
    IF s \in DOMAIN cs
    THEN LET a == cs[s].app
         IN IF a \in DOMAIN PlayerUsers
            THEN LET ids == RemoveId(PlayerUsers[a].ids, s)
                 IN IF ids = << >>
                    THEN Without(PlayerUsers, a)
                    ELSE [PlayerUsers EXCEPT ![a].ids = ids]
            ELSE PlayerUsers
    ELSE PlayerUsers

\* The last block with `del self.client_states[client_id]` left unguarded:
\* the delete of an id that is not in the table raises KeyError, which
\* stands here as an entry under 0, the id of no session.
SessionsAfterUnguardedDelete(cs, s) ==
    IF s \in DOMAIN cs
    THEN Without(PlayersAfterDisconnect(cs, s), s)
    ELSE (0 :> [NewClientState EXCEPT !.app = "KeyError"]) @@ cs

\* The last block deletes the session's record, if the id is in the table.
SessionsAfterDisconnect(cs, s) ==
    IF s \in DOMAIN cs THEN Without(PlayersAfterDisconnect(cs, s), s) ELSE cs

\* disconnect has no await: it runs in one step.  It never touches the
\* connection's writer.
disconnect(cs, s) ==
    /\ LiveUsers' = LiveUsersAfterDisconnect(cs, s)
    /\ PlayerUsers' = PlayerUsersAfterDisconnect(cs, s)
    /\ client_states' = SessionsAfterDisconnect(cs, s)

\* handle_client: an exception raised under get_chunk_data breaks the loop
\* and disconnect runs, with no suspension in between.
RaiseAndDisconnect(cs, s) ==
    /\ disconnect(cs, s)
    /\ pc' = [pc EXCEPT ![s] = "done"]
    /\ todo' = [todo EXCEPT ![s] = << >>]
    /\ relay' = [relay EXCEPT ![s] = NoRelay]

\* ------------------------------------------------------ accept, handshake
Accept(s) ==
    /\ pc[s] = "free"
    /\ \A t \in Ids : t < s => pc[t] # "free"
    /\ client_states' = (s :> NewClientState) @@ client_states
    /\ pc' = [pc EXCEPT ![s] = "handshake"]
    /\ UNCHANGED <<LiveUsers, PlayerUsers, out, writerClosed, todo, relay, clock>>
    /\ UNCHANGED codecVars

HandshakeOk(s) ==
    /\ pc[s] = "handshake"
    /\ pc' = [pc EXCEPT ![s] = "run"]
    /\ UNCHANGED <<client_states, LiveUsers, PlayerUsers, out, writerClosed,
                   todo, relay, clock>>
    /\ UNCHANGED codecVars

\* asyncio.TimeoutError is the one exception handle_client catches around
\* perform_handshake.
HandshakeTimeout(s) ==
    /\ pc[s] \in {"handshake", "hs_closed"}
    /\ RaiseAndDisconnect(client_states, s)
    /\ UNCHANGED <<out, writerClosed, clock>>
    /\ UNCHANGED codecVars

\* A short read (IncompleteReadError) or a failing send inside
\* perform_handshake is not a TimeoutError: it leaves handle_client, and
\* disconnect is not called.
HandshakeError(s) ==
    /\ pc[s] \in {"handshake", "hs_closed"}
    /\ pc' = [pc EXCEPT ![s] = "crashed"]
    /\ UNCHANGED <<client_states, LiveUsers, PlayerUsers, out, writerClosed,
                   todo, relay, clock>>
    /\ UNCHANGED codecVars

\* C0 is neither 0x03 nor 0x06: the writer is closed, and perform_handshake
\* goes on to read C1.
HandshakeBadVersion(s) ==
    /\ pc[s] = "handshake"
    /\ writerClosed' = [writerClosed EXCEPT ![s] = TRUE]
    /\ pc' = [pc EXCEPT ![s] = "hs_closed"]
    /\ UNCHANGED <<client_states, LiveUsers, PlayerUsers, out, todo, relay, clock>>
    /\ UNCHANGED codecVars

\* With C1 and C2 already buffered and a digest C1, the reads succeed and the
\* unchecked writer.write is dropped: the handshake completes on a closed writer.
HandshakeAfterClose(s) ==
    /\ pc[s] = "hs_closed"
    /\ pc' = [pc EXCEPT ![s] = "run"]
    /\ UNCHANGED <<client_states, LiveUsers, PlayerUsers, out, writerClosed,
                   todo, relay, clock>>
    /\ UNCHANGED codecVars

\* --------------------------------------------------------------- commands
ConnectReplies(tid) ==
    << Message(RTMP_TYPE_WINDOW_ACKNOWLEDGEMENT_SIZE, "", "", "", 0, 0, 0, "5000000", 0),
       Message(RTMP_TYPE_SET_CHUNK_SIZE, "", "", "", 0, 0, 0, "4096", 0),
       Message(RTMP_TYPE_SET_PEER_BANDWIDTH, "", "", "", 0, 0, 0, "5000000,2", 0),
       Message(RTMP_TYPE_INVOKE, "_result", "status",
               "NetConnection.Connect.Success", tid, 0, 0, "", 0) >>

\* The test of app with every app let through.
AnyApp(app) == FALSE

\* if client_state.app == '': raise DisconnectClientException()
EmptyApp(app) == app = ""

\* The ClientState as handle_connect_command leaves it at its raise or at its
\* first send.  a = None stands for a command object without an app
\* attribute, which leaves ClientState.app as it is; the command object
\* carries a tcUrl.
ConnectState(c, a) ==
    LET c1 == IF a = None THEN c ELSE [c EXCEPT !.app = a]
    IN IF EmptyApp(c1.app) THEN c1 ELSE [c1 EXCEPT !.tcUrl = "rtmp://host/app"]

\* handle_connect_command.
Connect(s, a) ==
    /\ pc[s] = "run"
    /\ clock < MaxMsgs
    /\ clock' = clock + 1
    /\ LET cs == [client_states EXCEPT ![s] = ConnectState(@, a)]
       IN IF EmptyApp(cs[s].app)
          THEN \* app is assigned before it is tested
               /\ RaiseAndDisconnect(cs, s)
               /\ UNCHANGED <<out, writerClosed>>
          ELSE /\ client_states' = cs
               /\ IF writerClosed[s]
                  THEN \* send: drain raises on the closed transport
                       /\ pc' = [pc EXCEPT ![s] = "closing"]
                       /\ UNCHANGED <<out, todo>>
                  ELSE /\ out' = Write(out, s, Head(ConnectReplies(1)))
                       /\ todo' = [todo EXCEPT ![s] = Tail(ConnectReplies(1))]
                       /\ pc' = [pc EXCEPT ![s] = "connect"]
               /\ UNCHANGED <<LiveUsers, PlayerUsers, writerClosed, relay>>
    /\ UNCHANGED codecVars

\* The next reply of a handle_connect_command that was suspended in drain.
ConnectSend(s) ==
    /\ pc[s] = "connect"
    /\ out' = Write(out, s, Head(todo[s]))
    /\ todo' = [todo EXCEPT ![s] = Tail(@)]
    /\ pc' = [pc EXCEPT ![s] = IF Len(todo[s]) = 1 THEN "run" ELSE "connect"]
    /\ UNCHANGED <<client_states, LiveUsers, PlayerUsers, writerClosed, relay, clock>>
    /\ UNCHANGED codecVars

\* AlreadyPublishing without its test: every publish is accepted.
AcceptAnyPublish(a) == FALSE

\* The three tests of handle_publish on the registry (lines 824, 845, 854):
\* the app has a publisher record.
AlreadyPublishing(a) == a \in DOMAIN LiveUsers

\* The test of the stream key with every key let through.
AnyStreamKey(key) == FALSE

\* if client_state.streamPath == None or client_state.streamPath == ''
EmptyStreamKey(key) == key = ""

\* PublisherRecord with the stream id left at the default of ClientState
\* instead of the id of the publish message.
WrongPublisherRecord(s, key, sid) ==
    [client_id |-> s, stream_mode |-> "live", stream_path |-> key,
     publish_stream_id |-> 0, app |-> client_states[s].app]

\* The record handle_publish stores in LiveUsers[app].
PublisherRecord(s, key, sid) ==
    [client_id |-> s, stream_mode |-> "live", stream_path |-> key,
     publish_stream_id |-> sid, app |-> client_states[s].app]

handle_publish(s, key, sid) ==
    /\ pc[s] = "run"
    /\ clock < MaxMsgs
    /\ clock' = clock + 1
    /\ LET a == client_states[s].app
           cs == [client_states EXCEPT ![s].streamPath = key,
                                       ![s].publishStreamId = sid]
       IN /\ client_states' = cs
          /\ IF AlreadyPublishing(a)
             THEN /\ out' = writeMessage(out, s,
                              StatusMessage(sid, "error", "NetStream.Publish.BadName"))
                  /\ pc' = [pc EXCEPT ![s] = "closing"]
                  /\ UNCHANGED LiveUsers
             ELSE IF EmptyStreamKey(key)
             THEN /\ out' = writeMessage(out, s,
                              StatusMessage(sid, "error", "NetStream.publish.Unauthorized"))
                  /\ pc' = [pc EXCEPT ![s] = "closing"]
                  /\ UNCHANGED LiveUsers
             ELSE /\ LiveUsers' = (a :> PublisherRecord(s, key, sid)) @@ LiveUsers
                  /\ out' = writeMessage(out, s,
                              StatusMessage(sid, "status", "NetStream.Publish.Start"))
                  /\ UNCHANGED pc
    /\ UNCHANGED <<PlayerUsers, writerClosed, todo, relay>>
    /\ UNCHANGED codecVars

\* The exception raised after the error status has been written and drained.
Teardown(s) ==
    /\ pc[s] = "closing"
    /\ RaiseAndDisconnect(client_states, s)
    /\ UNCHANGED <<out, writerClosed, clock>>
    /\ UNCHANGED codecVars

\* Any exception under get_chunk_data in the main loop: the peer closed the
\* connection (IncompleteReadError), a message type above 22, a command that
\* cannot be parsed.  A connect suspended in drain fails the same way when
\* the connection is lost.
ReadError(s) ==
    /\ pc[s] \in {"run", "connect"}
    /\ RaiseAndDisconnect(client_states, s)
    /\ UNCHANGED <<out, writerClosed, clock>>
    /\ UNCHANGED codecVars

\* The onMetaData message handle_onPlay builds from the publisher's metaData.
MetaDataMessage(sid, p) ==
    Message(RTMP_TYPE_DATA, "onMetaData", "", "", 0, sid, 0, p, 0)

PlayerUsersAfterPlay(s, a) ==
    IF a \in DOMAIN PlayerUsers
    THEN IF s \in Range(PlayerUsers[a].ids)
         THEN PlayerUsers
         ELSE [PlayerUsers EXCEPT ![a].ids = Append(@, s)]
    ELSE (a :> [creator |-> s, ids |-> <<s>>]) @@ PlayerUsers

\* A play that is dropped without an exception: the session stays.
IgnorePlay(s) ==
    UNCHANGED <<client_states, LiveUsers, PlayerUsers, pc, todo, relay, out,
                writerClosed>>

\* handle_onPlay raises before it has registered anything: the app has no
\* publisher record, or the record names a session that is no longer in the
\* session table (KeyError).
RejectPlay(s) ==
    /\ RaiseAndDisconnect(client_states, s)
    /\ UNCHANGED <<out, writerClosed>>

handle_onPlay(s, sid) ==
    /\ pc[s] = "run"
    /\ clock < MaxMsgs
    /\ clock' = clock + 1
    /\ LET a == client_states[s].app
       IN IF a \notin DOMAIN LiveUsers \/ LiveUsers[a].client_id \notin DOMAIN client_states
          THEN RejectPlay(s)
          ELSE LET p == LiveUsers[a].client_id
                   meta == client_states[p].metaDataPayload
               IN /\ PlayerUsers' = PlayerUsersAfterPlay(s, a)
                  /\ client_states' = [client_states EXCEPT ![p].Players = @ \cup {s}]
                  /\ out' = IF meta # None
                            THEN writeMessage(out, s, MetaDataMessage(sid, meta))
                            ELSE out
                  /\ UNCHANGED <<LiveUsers, pc, writerClosed, todo, relay>>
    /\ UNCHANGED codecVars

\* ------------------------------------------------------------------ media
IsAACSequenceHeader(p) == p = "aac_seq"

\* frame_type == 1 with codec id 7: the test on payload[1] is commented out
IsIFrame(p) == p \in {"avc_seq", "avc_key"}

\* handle_audio_data after its relay loop: the codec bookkeeping.
AudioBookkeeping(cs, s, p) ==
    IF IsAACSequenceHeader(p) THEN [cs EXCEPT ![s].aacSequenceHeader = p] ELSE cs

MediaMessage(type, sid, time, p, s) == Message(type, "", "", "", 0, sid, time, p, s)

\* handle_audio_data up to its first suspension: the relay loop runs over
\* PlayerUsers[app] whoever the sender is; RTMPMessage keeps the stream id,
\* type, timestamp and payload of the inbound packet.
handle_audio_data(s, sid, p) ==
    /\ pc[s] = "run"
    /\ clock < MaxMsgs
    /\ clock' = clock + 1
    /\ LET a == client_states[s].app
           m == MediaMessage(RTMP_TYPE_AUDIO, sid, clock + 1, p, s)
       IN IF a \in DOMAIN PlayerUsers
          THEN LET d == PlayerUsers[a]
                   t == Head(d.ids)
               IN /\ out' = writeMessage(out, t, m)
                  /\ relay' = [relay EXCEPT ![s] =
                                 [active |-> TRUE, msg |-> m, app |-> a,
                                  creator |-> d.creator, size |-> Len(d.ids),
                                  visited |-> {t}]]
                  /\ pc' = [pc EXCEPT ![s] = "relay"]
                  /\ UNCHANGED client_states
          ELSE /\ client_states' = AudioBookkeeping(client_states, s, p)
               /\ UNCHANGED <<out, relay, pc>>
    /\ UNCHANGED <<LiveUsers, PlayerUsers, writerClosed, todo>>
    /\ UNCHANGED codecVars

\* The loop given up after its first write.
StopAfterFirst(ids, visited) == << >>

\* The items the dict iterator has still to yield.
RemainingPlayers(ids, visited) == SelectSeq(ids, LAMBDA x : x \notin visited)

\* The next turn of the suspended loop `for ... in PlayerUsers[app].items()`:
\* the dict iterator raises RuntimeError when the dict it runs over has
\* changed size, or when it is asked for more items than the dict had.
RelayNext(s) ==
    /\ pc[s] = "relay"
    /\ LET r == relay[s]
           alive == r.app \in DOMAIN PlayerUsers /\ PlayerUsers[r.app].creator = r.creator
           ids == IF alive THEN PlayerUsers[r.app].ids ELSE << >>
           rest == RemainingPlayers(ids, r.visited)
       IN IF Len(ids) # r.size \/ (rest # << >> /\ Cardinality(r.visited) >= r.size)
          THEN /\ RaiseAndDisconnect(client_states, s)
               /\ UNCHANGED out
          ELSE IF rest = << >>
          THEN /\ client_states' = AudioBookkeeping(client_states, s, r.msg.payload)
               /\ relay' = [relay EXCEPT ![s] = NoRelay]
               /\ pc' = [pc EXCEPT ![s] = "run"]
               /\ UNCHANGED <<LiveUsers, PlayerUsers, out, todo>>
          ELSE /\ out' = writeMessage(out, Head(rest), r.msg)
               /\ relay' = [relay EXCEPT ![s].visited = @ \cup {Head(rest)}]
               /\ UNCHANGED <<client_states, LiveUsers, PlayerUsers, pc, todo>>
    /\ UNCHANGED <<writerClosed, clock>>
    /\ UNCHANGED codecVars

\* handle_video_data: the relay loop is commented out; an I-frame is latched.
handle_video_data(s, p) ==
    /\ pc[s] = "run"
    /\ clock < MaxMsgs
    /\ clock' = clock + 1
    /\ client_states' = IF IsIFrame(p)
                        THEN [client_states EXCEPT ![s].avcSequenceHeader = p]
                        ELSE client_states
    /\ UNCHANGED <<LiveUsers, PlayerUsers, pc, out, writerClosed, todo, relay>>
    /\ UNCHANGED codecVars

\* handle_amf_data: @setDataFrame/onMetaData is latched; @setDataFrame with
\* another second field returns; any other command name latches the payload
\* and ends in a KeyError on inst['dataObj'].  Nothing is relayed.
handle_amf_data(s, p) ==
    /\ pc[s] = "run"
    /\ clock < MaxMsgs
    /\ clock' = clock + 1
    /\ IF p = "onMetaData"
       THEN /\ client_states' = [client_states EXCEPT ![s].metaDataPayload = p]
            /\ UNCHANGED <<LiveUsers, PlayerUsers, pc, todo, relay>>
       ELSE IF p = "setDataFrame_other"
       THEN UNCHANGED <<client_states, LiveUsers, PlayerUsers, pc, todo, relay>>
       ELSE RaiseAndDisconnect([client_states EXCEPT ![s].metaDataPayload = p], s)
    /\ UNCHANGED <<out, writerClosed>>
    /\ UNCHANGED codecVars

Next ==
    \E s \in Ids :
        \/ Accept(s)
        \/ HandshakeOk(s)
        \/ HandshakeTimeout(s)
        \/ HandshakeError(s)
        \/ HandshakeBadVersion(s)
        \/ HandshakeAfterClose(s)
        \/ \E a \in Apps \cup {None} : Connect(s, a)
        \/ ConnectSend(s)
        \/ \E key \in StreamKeys, sid \in StreamIds : handle_publish(s, key, sid)
        \/ \E sid \in StreamIds : handle_onPlay(s, sid)
        \/ \E sid \in StreamIds, p \in AudioPayloads : handle_audio_data(s, sid, p)
        \/ RelayNext(s)
        \/ \E p \in VideoPayloads : handle_video_data(s, p)
        \/ \E p \in DataPayloads : handle_amf_data(s, p)
        \/ ReadError(s)
        \/ Teardown(s)

Spec == Init /\ [][Next]_vars

\* ------------------------------------------------ the handshake in steps
\* perform_handshake one await at a time.  The positions of a task are the
\* awaits it is suspended in: "handshake" (C0, line 399), "read_c1" (line
\* 405), "drain_s0" and "drain_s1" (the drains of the sends at lines 409 and
\* 412), "read_c2_simple" (line 413), "drain_s2" (line 414) and
\* "read_c2_digest" (line 420).
\* handshake.detectClientMessageFormat: 0 for a simple C1, 1 or 2 for a C1
\* with a digest.
MESSAGE_FORMAT_0 == 0

MessageFormats == {0, 1, 2}

HandshakePositions ==
    {"handshake", "read_c1", "drain_s0", "drain_s1", "read_c2_simple",
     "drain_s2", "read_c2_digest"}

\* A part of the handshake handed to writer.write.
HandshakeBytes(name) == Message(0, name, "", "", 0, 0, 0, "", 0)

\* C0 has been read; a version other than 3 and 6 closes the writer, and the
\* function goes on.
ReadC0(s, version) ==
    /\ pc[s] = "handshake"
    /\ writerClosed' = [writerClosed EXCEPT ![s] = version \notin {3, 6}]
    /\ pc' = [pc EXCEPT ![s] = "read_c1"]
    /\ UNCHANGED <<client_states, LiveUsers, PlayerUsers, out, todo, relay, clock>>
    /\ UNCHANGED codecVars

\* C1 has been read.  Simple: S0 is sent, and the drain of a closed writer
\* raises ConnectionResetError, which handle_client does not catch.  Digest:
\* S0, S1 and S2 are written in one write, with no drain, and C2 is awaited.
ReadC1(s, messageFormat) ==
    /\ pc[s] = "read_c1"
    /\ IF messageFormat = MESSAGE_FORMAT_0
       THEN /\ out' = Write(out, s, HandshakeBytes("S0"))
            /\ pc' = [pc EXCEPT ![s] = IF writerClosed[s] THEN "crashed" ELSE "drain_s0"]
       ELSE /\ out' = [out EXCEPT ![s] = @ \o << HandshakeBytes("S0"),
                                                HandshakeBytes("S1"),
                                                HandshakeBytes("S2") >>]
            /\ pc' = [pc EXCEPT ![s] = "read_c2_digest"]
    /\ UNCHANGED <<client_states, LiveUsers, PlayerUsers, writerClosed, todo,
                   relay, clock>>
    /\ UNCHANGED codecVars

\* Simple, line 412: S1 (the peer's C1) is sent.
SendS1(s) ==
    /\ pc[s] = "drain_s0"
    /\ out' = Write(out, s, HandshakeBytes("S1"))
    /\ pc' = [pc EXCEPT ![s] = "drain_s1"]
    /\ UNCHANGED <<client_states, LiveUsers, PlayerUsers, writerClosed, todo,
                   relay, clock>>
    /\ UNCHANGED codecVars

\* Simple, line 413: the read of C2 follows the send of S1.
AwaitC2(s) ==
    /\ pc[s] = "drain_s1"
    /\ pc' = [pc EXCEPT ![s] = "read_c2_simple"]
    /\ UNCHANGED <<client_states, LiveUsers, PlayerUsers, out, writerClosed,
                   todo, relay, clock>>
    /\ UNCHANGED codecVars

\* C2 has been read.  Simple: S2 is sent (line 414).  Digest: done.
ReadC2(s) ==
    /\ pc[s] \in {"read_c2_simple", "read_c2_digest"}
    /\ IF pc[s] = "read_c2_simple"
       THEN /\ out' = Write(out, s, HandshakeBytes("S2"))
            /\ pc' = [pc EXCEPT ![s] = "drain_s2"]
       ELSE /\ pc' = [pc EXCEPT ![s] = "run"]
            /\ UNCHANGED out
    /\ UNCHANGED <<client_states, LiveUsers, PlayerUsers, writerClosed, todo,
                   relay, clock>>
    /\ UNCHANGED codecVars

\* Simple: S2 has been drained, "Handshake done!".
HandshakeDone(s) ==
    /\ pc[s] = "drain_s2"
    /\ pc' = [pc EXCEPT ![s] = "run"]
    /\ UNCHANGED <<client_states, LiveUsers, PlayerUsers, out, writerClosed,
                   todo, relay, clock>>
    /\ UNCHANGED codecVars

\* asyncio.wait_for(..., timeout=5) cancels perform_handshake at the await it
\* is in; handle_client disconnects.
PerformHandshakeTimeout(s) ==
    /\ pc[s] \in HandshakePositions
    /\ RaiseAndDisconnect(client_states, s)
    /\ UNCHANGED <<out, writerClosed, clock>>
    /\ UNCHANGED codecVars

\* A short read or a lost connection at an await of perform_handshake: the
\* exception is not a TimeoutError and ends the task without disconnect.
PerformHandshakeError(s) ==
    /\ pc[s] \in HandshakePositions
    /\ pc' = [pc EXCEPT ![s] = "crashed"]
    /\ UNCHANGED <<client_states, LiveUsers, PlayerUsers, out, writerClosed,
                   todo, relay, clock>>
    /\ UNCHANGED codecVars

HandshakeNext ==
    \E s \in Ids :
        \/ Accept(s)
        \/ \E version \in {3, 6, 5} : ReadC0(s, version)
        \/ \E messageFormat \in MessageFormats : ReadC1(s, messageFormat)
        \/ SendS1(s)
        \/ AwaitC2(s)
        \/ ReadC2(s)
        \/ HandshakeDone(s)
        \/ PerformHandshakeTimeout(s)
        \/ PerformHandshakeError(s)
        \/ ReadError(s)

HandshakeSpec == Init /\ [][HandshakeNext]_vars

\* ============================================================= chunk codec
\* One connection seen at the level of chunks.  A chunk is what
\* get_chunk_data reads in one call: the basic header (csid = the low 6 bits
\* of its first byte, then b1, b2), the message header fields the format
\* carries, the 4 bytes read as extended timestamp, and the payload bytes that
\* follow.  Payload bytes are kept as pieces [id, lo, hi]: bytes lo..hi-1 of
\* the content id, one piece per chunk read; for a control message or a
\* command, id is the number its bytes encode.
MaxChunks == 4          \* chunks read from the peer in one run
MaxWrites == 3          \* messages encoded by writeMessage in one run

Min(a, b) == IF a < b THEN a ELSE b

RECURSIVE PayloadLen(_)
PayloadLen(q) == IF q = << >> THEN 0 ELSE (Head(q).hi - Head(q).lo) + PayloadLen(Tail(q))

\* int.from_bytes(bytes, byteorder='big') of four bytes
BigEndian(b) == ((b[1] * 256 + b[2]) * 256 + b[3]) * 256 + b[4]

\* The chunk stream id get_chunk_data computes from the basic header.
BasicHeaderCid(csid, b1, b2) ==
    IF csid = 0 THEN 64 + b1
    ELSE IF csid = 1 THEN (64 + b1 + b2) * 256      \* (64 + b1 + b2) << 8
    ELSE csid

BasicHeaderLen(csid) == IF csid = 0 THEN 2 ELSE IF csid = 1 THEN 3 ELSE 1

\* Bytes of the message header by format: 11, 7, 3, 0.
MessageHeaderLen(fmt) ==
    IF fmt = 0 THEN 11 ELSE IF fmt = 1 THEN 7 ELSE IF fmt = 2 THEN 3 ELSE 0

createPacket ==
    [timestamp |-> 0, extended_timestamp |-> 0, payload_length |-> 0,
     msg_type_id |-> 0, msg_stream_id |-> 0, payload |-> << >>]

\* The number a control payload encodes (int.from_bytes of the payload).
PayloadInt(payload) == payload[1].id

\* handle_chunk_size_message with the new size dropped.
KeepChunkSize(payload) == chunk_size

\* handle_chunk_size_message: the inbound chunk size after a SET_CHUNK_SIZE
\* that is not above MAX_CHUNK_SIZE.
handle_chunk_size_message(payload) == PayloadInt(payload)

\* response_createStream with the counter left as it is.
StreamsNotCounted(n) == n

\* response_createStream: the stream counter after a createStream.
StreamsAfterCreate(n) == n + 1

\* The _result of response_createStream, and the ACK of send_ack.
CreateStreamResult(tid, n) ==
    [type |-> RTMP_TYPE_INVOKE, name |-> "_result", id |-> tid, arg |-> n]

AckMessage(size) ==
    [type |-> RTMP_TYPE_ACKNOWLEDGEMENT, name |-> "", id |-> 0, arg |-> size]

\* The packet get_chunk_data builds from a completed slot: its timestamp is
\* the slot's 'timestamp', the 3-byte field of the last header that had one.
RtmpPacket(slot) ==
    [type |-> slot.msg_type_id, stream_id |-> slot.msg_stream_id,
     timestamp |-> slot.timestamp, length |-> slot.payload_length,
     payload |-> slot.payload]

\* handle_chunk_size_message without its test of the size.
AnyChunkSize(pkt) == FALSE

\* handle_rtmp_packet raises: a SET_CHUNK_SIZE above MAX_CHUNK_SIZE.
DispatchRaises(pkt) ==
    pkt.type = RTMP_TYPE_SET_CHUNK_SIZE /\ MAX_CHUNK_SIZE < PayloadInt(pkt.payload)

\* handle_rtmp_packet, as far as it touches the codec: SET_CHUNK_SIZE,
\* WINDOW_ACKNOWLEDGEMENT_SIZE, and the createStream command (the one command
\* the peers of this part send as INVOKE); the other types leave it alone.
handle_rtmp_packet(pkt) ==
    /\ chunk_size' = IF pkt.type = RTMP_TYPE_SET_CHUNK_SIZE
                     THEN handle_chunk_size_message(pkt.payload)
                     ELSE chunk_size
    /\ window_acknowledgement_size' =
           IF pkt.type = RTMP_TYPE_WINDOW_ACKNOWLEDGEMENT_SIZE
           THEN PayloadInt(pkt.payload)
           ELSE window_acknowledgement_size
    /\ streams' = IF pkt.type = RTMP_TYPE_INVOKE
                  THEN StreamsAfterCreate(streams)
                  ELSE streams

\* get_chunk_data without its check of the message type id.
NoTypeCheck(type) == FALSE

\* if RTMP_TYPE_METADATA < IncomingPackets[cid]['msg_type_id']: raise
UnknownType(type) == RTMP_TYPE_METADATA < type

\* DisconnectClientException out of get_chunk_data: the connection is over
\* and its state is dropped with the session.
ChunkRaise ==
    /\ cpc' = "done"
    /\ UNCHANGED <<IncomingPackets, chunk_size, window_acknowledgement_size,
                   inAckSize, inLastAck, streams, sent, dispatched, bytesIn,
                   chunks>>

\* get_chunk_data on the chunk c, with the dispatch of a completed message
\* and the acknowledgement that follows it.
get_chunk_data(c) ==
    /\ cpc = "run"
    /\ LET cid == BasicHeaderCid(c.csid, c.b1, c.b2)
           p0 == IF cid \in DOMAIN IncomingPackets
                 THEN IncomingPackets[cid] ELSE createPacket
           p1 == IF c.fmt <= 2 THEN [p0 EXCEPT !.timestamp = c.ts] ELSE p0
           p2 == IF c.fmt <= 1
                 THEN [p1 EXCEPT !.payload_length = c.len,
                                 !.msg_type_id = c.type, !.payload = << >>]
                 ELSE p1
           p3 == IF c.fmt = 0
                 THEN [p2 EXCEPT !.msg_stream_id = BigEndian(c.sid)] ELSE p2
           payload_length == IF c.fmt <= 1
                             THEN p3.payload_length
                             ELSE p3.payload_length - PayloadLen(p3.payload)
           extended == p3.timestamp = 16777215
           p4 == IF extended THEN [p3 EXCEPT !.extended_timestamp = c.ext] ELSE p3
           hlen == BasicHeaderLen(c.csid) + MessageHeaderLen(c.fmt)
                   + (IF extended THEN 4 ELSE 0)
           n == Min(chunk_size, payload_length)
           lo == IF c.lo < 0 THEN PayloadLen(p4.payload) ELSE c.lo
           p5 == [p4 EXCEPT !.payload = Append(@, [id |-> c.id, lo |-> lo, hi |-> lo + n])]
           complete == PayloadLen(p5.payload) >= p5.payload_length
           pkt == RtmpPacket(p5)
           \* inAckSize >= 0xF0000000, which is 15 * 2^28
           wrapped == (inAckSize + hlen + n) \div 268435456 >= 15
           ackSize == IF wrapped THEN 0 ELSE inAckSize + hlen + n
           lastAck == IF wrapped THEN 0 ELSE inLastAck
       IN IF UnknownType(p3.msg_type_id)
          THEN ChunkRaise
          ELSE IF payload_length <= 0
          THEN \* "Invalid Length (ZERO!)": the slot is cleared and the call
               \* returns before the dispatch and the acknowledgement
               /\ IncomingPackets' = (cid :> [p4 EXCEPT !.payload = << >>]) @@ IncomingPackets
               /\ inAckSize' = inAckSize + hlen
               /\ bytesIn' = bytesIn + hlen
               /\ chunks' = chunks + 1
               /\ UNCHANGED <<chunk_size, window_acknowledgement_size, inLastAck,
                              streams, cpc, sent, dispatched>>
          ELSE IF complete /\ DispatchRaises(pkt)
          THEN ChunkRaise
          ELSE /\ IncomingPackets' =
                     (cid :> (IF complete THEN [p5 EXCEPT !.payload = << >>] ELSE p5))
                        @@ IncomingPackets
               /\ IF complete
                  THEN /\ handle_rtmp_packet(pkt)
                       /\ dispatched' = Append(dispatched, pkt)
                  ELSE UNCHANGED <<chunk_size, window_acknowledgement_size,
                                   streams, dispatched>>
               /\ LET reply == IF complete /\ pkt.type = RTMP_TYPE_INVOKE
                               THEN << CreateStreamResult(PayloadInt(pkt.payload), streams') >>
                               ELSE << >>
                      due == /\ window_acknowledgement_size' > 0
                             /\ ackSize - lastAck >= window_acknowledgement_size'
                  IN /\ inAckSize' = ackSize
                     /\ inLastAck' = IF due THEN ackSize ELSE lastAck
                     /\ sent' = sent \o reply
                                  \o (IF due THEN << AckMessage(ackSize) >> ELSE << >>)
               /\ bytesIn' = bytesIn + hlen + n
               /\ chunks' = chunks + 1
               /\ UNCHANGED cpc

\* ------------------------------------------------------ chunks of a peer
Chunk(fmt, csid, b1, b2, ts, len, type, id) ==
    [fmt |-> fmt, csid |-> csid, b1 |-> b1, b2 |-> b2, ts |-> ts, len |-> len,
     type |-> type, sid |-> <<1, 0, 0, 0>>, ext |-> 16909060, id |-> id, lo |-> -1]

\* Messages a peer starts: SET_CHUNK_SIZE 8192, 10485760 and 10485761; an
\* AUDIO message of 20000 bytes and one of 16777215 bytes (content 7);
\* createStream with transaction id 2 and 4.
PeerMessages ==
    { [type |-> RTMP_TYPE_SET_CHUNK_SIZE, len |-> 4, id |-> 8192],
      [type |-> RTMP_TYPE_SET_CHUNK_SIZE, len |-> 4, id |-> MAX_CHUNK_SIZE],
      [type |-> RTMP_TYPE_SET_CHUNK_SIZE, len |-> 4, id |-> MAX_CHUNK_SIZE + 1],
      [type |-> RTMP_TYPE_AUDIO, len |-> 20000, id |-> 7],
      [type |-> RTMP_TYPE_AUDIO, len |-> 16777215, id |-> 7],
      [type |-> RTMP_TYPE_INVOKE, len |-> 25, id |-> 2],
      [type |-> RTMP_TYPE_INVOKE, len |-> 25, id |-> 4] }

\* Basic headers: chunk stream 3 in one byte, 65 in two bytes, and the
\* three-byte form with (b1, b2) = (1, 0) and (0, 1).
BasicHeaders == { <<3, 0, 0>>, <<0, 1, 0>>, <<1, 1, 0>>, <<1, 0, 1>> }

\* The chunks a peer sends.  0xFFFFFF = 16777215 in the timestamp field is
\* followed by the extended timestamp 0x01020304 = 16909060.
PeerChunks ==
    { Chunk(f, 3, 0, 0, 5, m.len, m.type, m.id) : f \in {0, 1}, m \in PeerMessages }
    \cup { Chunk(0, 3, 0, 0, 16777215, 100, RTMP_TYPE_AUDIO, 7) }
    \cup { Chunk(0, h[1], h[2], h[3], 5, 100, RTMP_TYPE_AUDIO, 7) : h \in BasicHeaders }
    \cup { Chunk(2, 3, 0, 0, ts, 0, 0, 7) : ts \in {5, 16777215} }
    \cup { Chunk(3, h[1], h[2], h[3], 0, 0, 0, 7) : h \in BasicHeaders }

PeerChunk(c) ==
    /\ chunks < MaxChunks
    /\ get_chunk_data(c)
    /\ UNCHANGED <<out_chunk_size, lastWriteHeaders, nextChannelId, wire, written>>
    /\ UNCHANGED sessionVars

DecoderNext == \E c \in PeerChunks : PeerChunk(c)

DecoderSpec == Init /\ [][DecoderNext]_vars

\* ------------------------------------- chunks of a peer: message types
\* Message types handle_rtmp_packet has no branch for.
UnhandledTypes == {4, 7, 15, 16, 19, 22}

\* An AUDIO message of 300 bytes on chunk stream 3 (content 7) and its
\* continuation chunks, a whole AUDIO message of 100 bytes on the same chunk
\* stream (content 9), an ABORT on chunk stream 2 that names chunk stream 3,
\* a message of type 23, messages of the unhandled types, and a
\* continuation chunk on chunk stream 2.
ControlChunks ==
    { Chunk(0, 3, 0, 0, 5, 300, RTMP_TYPE_AUDIO, 7),
      Chunk(3, 3, 0, 0, 0, 0, 0, 7),
      Chunk(0, 3, 0, 0, 5, 100, RTMP_TYPE_AUDIO, 9),
      Chunk(0, 2, 0, 0, 5, 4, RTMP_TYPE_ABORT, 3),
      Chunk(3, 2, 0, 0, 0, 0, 0, 3) }
    \cup { Chunk(f, 3, 0, 0, 5, 100, RTMP_TYPE_METADATA + 1, 7) : f \in {0, 1} }
    \cup { Chunk(0, 3, 0, 0, 5, 100, t, 7) : t \in UnhandledTypes }

ControlNext == \E c \in ControlChunks : PeerChunk(c)

ControlSpec == Init /\ [][ControlNext]_vars

\* ------------------------------------- chunks of a peer: the chunk size
\* SET_CHUNK_SIZE with 0, 1, 10485760 and 10485761 on chunk stream 2, the
\* first chunk of an AUDIO message of 300 bytes on chunk stream 3 (content 7)
\* and its continuation chunks.
ChunkSizeChunks ==
    { Chunk(0, 2, 0, 0, 0, 4, RTMP_TYPE_SET_CHUNK_SIZE, x) :
          x \in {0, 1, MAX_CHUNK_SIZE, MAX_CHUNK_SIZE + 1} }
    \cup { Chunk(0, 3, 0, 0, 5, 300, RTMP_TYPE_AUDIO, 7),
           Chunk(3, 3, 0, 0, 0, 0, 0, 7) }

ChunkSizeNext == \E c \in ChunkSizeChunks : PeerChunk(c)

ChunkSizeSpec == Init /\ [][ChunkSizeNext]_vars

\* ------------------------------- chunks of a peer: interleaved messages
\* Chunk streams of a peer that interleaves: 3 and 4 in one byte, and the
\* three-byte form with (b1, b2) = (1, 0) and (0, 1).
InterleaveHeaders == { <<3, 0, 0>>, <<4, 0, 0>>, <<1, 1, 0>>, <<1, 0, 1>> }

\* The content a peer sends on the chunk stream of a basic header: one per
\* chunk stream.
ContentOf(h) == 100 * h[1] + 10 * h[2] + h[3]

\* On each chunk stream, the first chunk of an AUDIO message of 200 bytes
\* and its continuation chunks.
InterleaveChunks ==
    { Chunk(0, h[1], h[2], h[3], 5, 200, RTMP_TYPE_AUDIO, ContentOf(h)) :
          h \in InterleaveHeaders }
    \cup { Chunk(3, h[1], h[2], h[3], 0, 0, 0, ContentOf(h)) : h \in InterleaveHeaders }

InterleaveNext == \E c \in InterleaveChunks : PeerChunk(c)

InterleaveSpec == Init /\ [][InterleaveNext]_vars

\* ------------------------------------------------------------ the encoder
\* common.Header: the control values name the chunk format, and a new header
\* has time 0 and stream id 0.
FULL == 0
MESSAGE == 1
TIME == 2
SEPARATOR == 3

Header(channel) ==
    [channel |-> channel, streamId |-> 0, type |-> 0, size |-> 0, time |-> 0,
     delta |-> 0]

\* struct.pack('<I', streamId): the four bytes, low byte first.
LittleEndian(n) ==
    << n % 256, (n \div 256) % 256, (n \div 65536) % 256, (n \div 16777216) % 256 >>

\* Header.toBytes(control) followed by the payload bytes lo..hi-1 of the
\* content id: one chunk on the wire.  The timestamp field is the header's
\* time, or 0xFFFFFF with the time in the extended timestamp; the stream id
\* is little-endian.  A format reads only the fields it carries.
toBytes(hdr, control, id, lo) ==
    [fmt |-> control, csid |-> hdr.channel, b1 |-> 0, b2 |-> 0,
     ts |-> Min(hdr.time, 16777215), len |-> hdr.size, type |-> hdr.type,
     sid |-> LittleEndian(hdr.streamId), ext |-> hdr.time, id |-> id, lo |-> lo]

\* The channel of a header created for a stream id not written before.
NewChannelId ==
    IF nextChannelId <= PROTOCOL_CHANNEL_ID THEN PROTOCOL_CHANNEL_ID + 1
    ELSE nextChannelId

\* The header writeMessage starts from: the cached one of the stream id, a
\* new one on the next channel, or a new one on channel 2 for a message
\* type below AUDIO.
InitializedHeader(m) ==
    IF m.type < RTMP_TYPE_AUDIO THEN Header(PROTOCOL_CHANNEL_ID)
    ELSE IF m.streamId \in DOMAIN lastWriteHeaders THEN lastWriteHeaders[m.streamId]
    ELSE Header(NewChannelId)

Control(header, m) ==
    IF header.streamId # m.streamId \/ header.time = 0 \/ m.time <= header.time
    THEN FULL
    ELSE IF header.size # m.size \/ header.type # m.type THEN MESSAGE
    ELSE TIME

\* The header after the update: for MESSAGE and TIME, header.time is
\* assigned before header.delta = message.time - header.time is computed.
UpdatedHeader(header, m) ==
    IF Control(header, m) = FULL
    THEN [header EXCEPT !.streamId = m.streamId, !.type = m.type,
                        !.size = m.size, !.time = m.time, !.delta = m.time]
    ELSE LET time == m.time
         IN [header EXCEPT !.type = m.type, !.size = m.size, !.time = time,
                           !.delta = m.time - time]

\* hdr: the header that is written, with the delta as its time for MESSAGE
\* and TIME.
WrittenHeader(header, m) ==
    LET h == UpdatedHeader(header, m)
    IN [h EXCEPT !.time = IF Control(header, m) \in {MESSAGE, TIME}
                          THEN h.delta ELSE h.time]

\* The chunks of the while loop: the first with the chosen control, the
\* others with SEPARATOR, each with up to out_chunk_size payload bytes.
RECURSIVE ChunksFrom(_, _, _, _)
ChunksFrom(hdr, control, m, lo) ==
    IF m.size - lo <= 0 THEN << >>
    ELSE << toBytes(hdr, control, m.data, lo) >>
         \o ChunksFrom(hdr, SEPARATOR, m, lo + Min(out_chunk_size, m.size - lo))

\* writeMessage at the level of chunks: the header cache and the bytes sent.
writeMessageBytes(m) ==
    LET header == InitializedHeader(m)
        known == m.streamId \in DOMAIN lastWriteHeaders
        cached == IF m.type < RTMP_TYPE_AUDIO
                  THEN (IF known THEN lastWriteHeaders[m.streamId]
                        ELSE Header(NewChannelId))
                  ELSE UpdatedHeader(header, m)
    IN /\ lastWriteHeaders' = (m.streamId :> cached) @@ lastWriteHeaders
       /\ nextChannelId' = IF known THEN nextChannelId ELSE NewChannelId + 1
       /\ wire' = wire \o ChunksFrom(WrittenHeader(header, m), Control(header, m), m, 0)

\* ------------------------------------------------- encoder into decoder
OutChunkSizes == {128, 4096, 65535}

\* A message handed to writeMessage: audio or video of 100 or 300 bytes on
\* stream 0 or 1 at time 0, 10 or 20 (content 7), and an acknowledgement.
RTMPMessage(type, streamId, time, size) ==
    [type |-> type, streamId |-> streamId, time |-> time, size |-> size, data |-> 7]

Messages ==
    { RTMPMessage(type, sid, time, size) :
          type \in {RTMP_TYPE_AUDIO, RTMP_TYPE_VIDEO}, sid \in {0, 1},
          time \in {0, 10, 20}, size \in {100, 300} }
    \cup { RTMPMessage(RTMP_TYPE_ACKNOWLEDGEMENT, 0, 0, 4) }

\* A connection that writes with out_chunk_size C to a connection that reads
\* with chunk size C.
CodecInit ==
    /\ NoSessions
    /\ \E C \in OutChunkSizes : CodecState(C, C)

Encode(m) ==
    /\ cpc = "run"
    /\ Len(written) < MaxWrites
    /\ writeMessageBytes(m)
    /\ written' = Append(written, m)
    /\ UNCHANGED <<IncomingPackets, chunk_size, out_chunk_size,
                   window_acknowledgement_size, inAckSize, inLastAck, streams,
                   cpc, sent, dispatched, bytesIn, chunks>>
    /\ UNCHANGED sessionVars

Decode ==
    /\ wire # << >>
    /\ get_chunk_data(Head(wire))
    /\ wire' = Tail(wire)
    /\ UNCHANGED <<out_chunk_size, lastWriteHeaders, nextChannelId, written>>
    /\ UNCHANGED sessionVars

CodecNext ==
    \/ \E m \in Messages : Encode(m)
    \/ Decode

CodecSpec == CodecInit /\ [][CodecNext]_vars

\* =================================================================== claims
Last(q) == q[Len(q)]

IsPublisherOf(s, a) == a \in DOMAIN LiveUsers /\ LiveUsers[a].client_id = s

IsPublisher(s) == \E a \in DOMAIN LiveUsers : LiveUsers[a].client_id = s

InPlayerUsers(PU, t) == \E a \in DOMAIN PU : t \in Range(PU[a].ids)

BadName(sid) == StatusMessage(sid, "error", "NetStream.Publish.BadName")

PublishStep(s) == \E key \in StreamKeys, sid \in StreamIds : handle_publish(s, key, sid)

\* C1: a registered publisher slot is never replaced: from one state to the
\* next the record of an app stays as it is or is removed, and a publish
\* handled while the session's app has a record leaves the registry as it is
\* and ends in the error path.  (One record per app is how LiveUsers is keyed.)
C1_OnePublisherPerApp ==
    [][ /\ \A a \in DOMAIN LiveUsers :
             a \in DOMAIN LiveUsers' => LiveUsers'[a] = LiveUsers[a]
        /\ \A s \in DOMAIN client_states :
             (PublishStep(s) /\ client_states[s].app \in DOMAIN LiveUsers)
                => LiveUsers' = LiveUsers /\ pc'[s] = "closing" ]_vars

\* A second session was refused and torn down while the first one is still
\* the registered publisher.
C1_Witness ==
    \E s \in Ids, a \in DOMAIN LiveUsers :
        /\ pc[s] = "done"
        /\ out[s] # << >>
        /\ Last(out[s]).code = "NetStream.Publish.BadName"
        /\ LiveUsers[a].client_id # s
        /\ LiveUsers[a].client_id \in DOMAIN client_states

\* C2: a publish on an app whose record names another session writes onStatus
\* error NetStream.Publish.BadName to the sender, leaves the registry as it
\* is and leaves the sender with nothing to do but its teardown; the teardown
\* removes the sender from the session table and leaves the other session's
\* record in place.
C2_DuplicatePublishRejected ==
    [][ \A s \in DOMAIN client_states :
          LET a == client_states[s].app
              held == a \in DOMAIN LiveUsers /\ LiveUsers[a].client_id # s
          IN /\ \A key \in StreamKeys, sid \in StreamIds :
                  (handle_publish(s, key, sid) /\ held)
                     => /\ out'[s] = Append(out[s], BadName(sid))
                        /\ pc'[s] = "closing"
                        /\ LiveUsers' = LiveUsers
             /\ (pc[s] = "closing" /\ pc'[s] # "closing")
                  => /\ pc'[s] = "done"
                     /\ s \notin DOMAIN client_states'
                     /\ (held => LiveUsers' = LiveUsers) ]_vars

\* The refused session is suspended after the error status, the record of
\* its app names another session.
C2_Witness ==
    \E s \in DOMAIN client_states :
        /\ pc[s] = "closing"
        /\ out[s] # << >>
        /\ Last(out[s]).code = "NetStream.Publish.BadName"
        /\ client_states[s].app \in DOMAIN LiveUsers
        /\ LiveUsers[client_states[s].app].client_id # s

\* C3: a publish with a non-empty stream key on an app without a record
\* registers the sender under that app, with the stream id of the publish
\* message as publish_stream_id, and writes onStatus NetStream.Publish.Start
\* to the sender.
C3_PublishRegisters ==
    [][ \A s \in DOMAIN client_states :
          \A key \in StreamKeys \ {""}, sid \in StreamIds :
             LET a == client_states[s].app
             IN (handle_publish(s, key, sid) /\ a \notin DOMAIN LiveUsers)
                  => /\ a \in DOMAIN LiveUsers'
                     /\ LiveUsers'[a].client_id = s
                     /\ LiveUsers'[a].publish_stream_id = sid
                     /\ LiveUsers'[a].stream_path = key
                     /\ out'[s] = Append(out[s],
                            StatusMessage(sid, "status", "NetStream.Publish.Start")) ]_vars

C3_Witness ==
    \E s \in DOMAIN client_states :
        /\ IsPublisherOf(s, client_states[s].app)
        /\ client_states[s].app # ""
        /\ LiveUsers[client_states[s].app].publish_stream_id = 1
        /\ out[s] # << >>
        /\ Last(out[s]).code = "NetStream.Publish.Start"

\* C4: a play accepted on an app whose publisher (another session) has
\* latched onMetaData, an audio and a video sequence header is answered with
\* the onMetaData message, then the audio sequence header, then the video
\* sequence header, before anything else is written to the player.
C4_SequenceHeadersReplayed ==
    [][ \A s \in DOMAIN client_states :
          LET a == client_states[s].app
          IN \A sid \in StreamIds :
               ( /\ handle_onPlay(s, sid)
                 /\ a \in DOMAIN LiveUsers
                 /\ LiveUsers[a].client_id # s
                 /\ LiveUsers[a].client_id \in DOMAIN client_states
                 /\ client_states[LiveUsers[a].client_id].metaDataPayload # None
                 /\ client_states[LiveUsers[a].client_id].aacSequenceHeader # None
                 /\ client_states[LiveUsers[a].client_id].avcSequenceHeader # None )
               => LET p == client_states[LiveUsers[a].client_id]
                      n == Len(out[s])
                  IN /\ Len(out'[s]) >= n + 3
                     /\ SubSeq(out'[s], 1, n) = out[s]
                     /\ out'[s][n + 1].name = "onMetaData"
                     /\ out'[s][n + 2].type = RTMP_TYPE_AUDIO
                     /\ out'[s][n + 2].payload = p.aacSequenceHeader
                     /\ out'[s][n + 3].type = RTMP_TYPE_VIDEO
                     /\ out'[s][n + 3].payload = p.avcSequenceHeader ]_vars

Delivered(o, t, type, time, payload) ==
    \E i \in 1..Len(o[t]) :
        o[t][i].type = type /\ o[t][i].time = time /\ o[t][i].payload = payload

\* C5: when the handler of an AUDIO, VIDEO or DATA message of a registered
\* publisher has returned, every other session in the publisher's fan-out
\* table that is still connected has been written a message of the same
\* type, timestamp and payload.
C5_MediaRelayedToPlayers ==
    [][ \A s \in DOMAIN client_states :
          (IsPublisher(s) /\ s \in DOMAIN client_states')
          => \A t \in (client_states[s].Players \cap DOMAIN client_states') \ {s} :
               /\ \A p \in VideoPayloads :
                    handle_video_data(s, p)
                       => Delivered(out', t, RTMP_TYPE_VIDEO, clock', p)
               /\ \A p \in DataPayloads :
                    handle_amf_data(s, p)
                       => Delivered(out', t, RTMP_TYPE_DATA, clock', p)
               /\ \A p \in AudioPayloads, sid \in StreamIds :
                    (handle_audio_data(s, sid, p) /\ pc'[s] = "run")
                       => Delivered(out', t, RTMP_TYPE_AUDIO, clock', p)
               /\ (pc[s] = "relay" /\ pc'[s] = "run")
                    => Delivered(out', t, RTMP_TYPE_AUDIO, relay[s].msg.time,
                                 relay[s].msg.payload) ]_vars

\* C6: on every connection the messages relayed from one sender appear in
\* the order in which that sender's messages were dispatched: their
\* timestamps of dispatch increase along out.
C6_RelayOrder ==
    \A t \in Ids : \A i, j \in 1..Len(out[t]) :
        ( /\ i < j
          /\ out[t][i].src # 0
          /\ out[t][i].src = out[t][j].src )
        => out[t][i].time < out[t][j].time

\* Two messages of one publisher have been relayed to one player.
C6_Witness ==
    \E t \in Ids : \E i, j \in 1..Len(out[t]) :
        /\ i < j
        /\ out[t][i].src # 0
        /\ out[t][i].src # t
        /\ out[t][i].src = out[t][j].src
        /\ out[t][i].src \in DOMAIN client_states
        /\ IsPublisher(out[t][i].src)
        /\ t \in client_states[out[t][i].src].Players

\* C7: in the step that removes from the session table the record of the
\* session registered as publisher of its app, the slot of that app is
\* cleared and none of the players of its fan-out table is left in a per-app
\* player set.
C7_PublisherTeardownDetachesPlayers ==
    [][ \A s \in DOMAIN client_states :
          (IsPublisherOf(s, client_states[s].app) /\ s \notin DOMAIN client_states')
          => /\ client_states[s].app \notin DOMAIN LiveUsers'
             /\ \A t \in client_states[s].Players : ~InPlayerUsers(PlayerUsers', t) ]_vars

NeverPublished(t) ==
    \A i \in 1..Len(out[t]) : out[t][i].code # "NetStream.Publish.Start"

\* C8: a session that has been torn down, and was never a publisher, is in
\* no fan-out table and in no per-app player set.
C8_TornDownPlayerDetached ==
    \A t \in Ids :
        (pc[t] = "done" /\ NeverPublished(t))
        => /\ \A s \in DOMAIN client_states : t \notin client_states[s].Players
           /\ ~InPlayerUsers(PlayerUsers, t)

\* C9: once the task of a connection has ended, for whatever reason, its
\* session is no longer in the session table.
C9_EndedSessionRemoved ==
    \A s \in Ids : pc[s] \in {"done", "crashed"} => s \notin DOMAIN client_states

\* C10: once disconnect has run for a session, the writer of its connection
\* is closed.
C10_TeardownClosesWriter ==
    \A s \in Ids : pc[s] = "done" => writerClosed[s]

\* C11: disconnect run again for a session it has already torn down leaves
\* the session table, the publisher registry and the player sets as they
\* are, and its delete of the session's record does not raise.
C11_DisconnectIdempotent ==
    \A s \in Ids :
        pc[s] = "done"
        => /\ SessionsAfterDisconnect(client_states, s) = client_states
           /\ LiveUsersAfterDisconnect(client_states, s) = LiveUsers
           /\ PlayerUsersAfterDisconnect(client_states, s) = PlayerUsers

\* A session has been torn down while a publisher and a player set remain.
C11_Witness ==
    \E s \in Ids :
        /\ pc[s] = "done"
        /\ LiveUsers # << >>
        /\ PlayerUsers # << >>
        /\ client_states # << >>
\* C12: the relay of a sender never waits on a player.  pc = "relay" is the
\* sender's task suspended in the drain of the player it has just written
\* to, which is where it stays while that player's peer does not read; the
\* claim requires that the sender can go on to its next message (pc = "run")
\* whatever the player does.
C12_RelayNeverBlocksOnPlayer ==
    \A s \in DOMAIN client_states :
        (IsPublisher(s) /\ relay[s].active /\ relay[s].visited # {s})
        => pc[s] = "run"

\* C13: a connect with a non-empty app (on a writer that is open) is
\* answered on the sender's connection with WINDOW_ACK_SIZE(5000000),
\* SET_CHUNK_SIZE(4096), SET_PEER_BANDWIDTH(5000000, 2) and the _result
\* NetConnection.Connect.Success, in this order: from the connect until the
\* last reply, whatever is written to the connection is the next of the four.
C13_ConnectReplyOrder ==
    [][ \A s \in DOMAIN client_states :
          /\ \A a \in AppNames :
                (Connect(s, a) /\ ~writerClosed[s])
                => /\ out'[s] = Append(out[s], ConnectReplies(1)[1])
                   /\ pc'[s] = "connect"
          /\ (pc[s] = "connect" /\ s \in DOMAIN client_states')
                => \/ out'[s] = out[s]
                   \/ out'[s] = Append(out[s], ConnectReplies(1)[5 - Len(todo[s])]) ]_vars
\* C20: a play handled while the sender's app has no publisher record ends
\* with the sender torn down (its task over, its record out of the session
\* table), and the step adds the sender to no per-app player set and to no
\* publisher's fan-out table.
C20_PlayWithoutPublisher ==
    [][ \A s \in DOMAIN client_states :
          \A sid \in StreamIds :
             (handle_onPlay(s, sid) /\ client_states[s].app \notin DOMAIN LiveUsers)
             => /\ pc'[s] = "done"
                /\ s \notin DOMAIN client_states'
                /\ \A a \in DOMAIN PlayerUsers' :
                      s \in Range(PlayerUsers'[a].ids)
                      => a \in DOMAIN PlayerUsers /\ s \in Range(PlayerUsers[a].ids)
                /\ \A p \in DOMAIN client_states' :
                      s \in client_states'[p].Players => s \in client_states[p].Players ]_vars

\* A connected session whose app has no publisher, while another app has a
\* publisher and a player, with a message left to dispatch: the state in
\* which its play is refused (handle_onPlay is enabled by pc and clock alone).
C20_Witness ==
    \E s \in DOMAIN client_states :
        /\ pc[s] = "run"
        /\ clock < MaxMsgs
        /\ client_states[s].app \in AppNames
        /\ client_states[s].app \notin DOMAIN LiveUsers
        /\ ~InPlayerUsers(PlayerUsers, s)
        /\ LiveUsers # << >>
        /\ PlayerUsers # << >>
\* The createStream commands dispatched, and the _result replies written.
Creates == SelectSeq(dispatched, LAMBDA d : d.type = RTMP_TYPE_INVOKE)

Results == SelectSeq(sent, LAMBDA m : m.name = "_result")

\* C14: the stream counter is the number of createStream commands
\* dispatched, and the k-th of them has been answered with a _result that
\* carries its transaction id and the single argument k.
C14_CreateStreamCounts ==
    /\ streams = Len(Creates)
    /\ Len(Results) = Len(Creates)
    /\ \A k \in 1..Len(Results) :
          /\ Results[k].type = RTMP_TYPE_INVOKE
          /\ Results[k].id = PayloadInt(Creates[k].payload)
          /\ Results[k].arg = k

\* Two createStream commands with different transaction ids were answered,
\* the second with stream id 2.
C14_Witness ==
    /\ Len(Results) >= 2
    /\ Results[1].id # Results[2].id
    /\ Results[2].arg = 2

\* C16: a chunk whose basic header has low 6 bits 0 is reassembled in the
\* slot 64 + b1, which lies in 64..319; one with low 6 bits 1 in the slot
\* 64 + b1 + 256 * b2, which lies in 64..65599.
C16_BasicHeaderCid ==
    [][ \A c \in PeerChunks :
          (PeerChunk(c) /\ cpc' = "run" /\ c.csid \in {0, 1})
          => LET cid == IF c.csid = 0 THEN 64 + c.b1 ELSE 64 + c.b1 + 256 * c.b2
             IN /\ cid \in DOMAIN IncomingPackets'
                /\ cid \in 64..(IF c.csid = 0 THEN 319 ELSE 65599) ]_vars

\* C17: a message completed by a format-0 chunk whose timestamp field is
\* 0xFFFFFF is dispatched with the extended timestamp that followed the
\* header as its timestamp.
C17_ExtendedTimestamp ==
    [][ \A c \in PeerChunks :
          ( /\ PeerChunk(c)
            /\ c.fmt = 0
            /\ c.ts = 16777215
            /\ Len(dispatched') = Len(dispatched) + 1 )
          => Last(dispatched').timestamp = c.ext ]_vars

SetChunkSizes == SelectSeq(dispatched, LAMBDA d : d.type = RTMP_TYPE_SET_CHUNK_SIZE)

PieceSize(x) == x.hi - x.lo

\* C18: once a SET_CHUNK_SIZE has been dispatched, with X the value of the
\* last one, a chunk of a message with remaining > 0 bytes to come (the
\* message length, less what the slot holds unless the chunk starts a
\* message) adds min(X, remaining) payload bytes; the message is dispatched,
\* once and with all its bytes, in the step that completes it and not
\* before; and a message read at X throughout took ceil(length / X) chunks.
C18_ChunkSizeApplied ==
    [][ \A c \in PeerChunks :
          (PeerChunk(c) /\ cpc' = "run" /\ SetChunkSizes # << >>)
          => LET X == PayloadInt(Last(SetChunkSizes).payload)
                 cid == BasicHeaderCid(c.csid, c.b1, c.b2)
                 have == IF c.fmt <= 1 \/ cid \notin DOMAIN IncomingPackets
                         THEN 0
                         ELSE PayloadLen(IncomingPackets[cid].payload)
                 L == IncomingPackets'[cid].payload_length
                 n == Min(X, L - have)
             IN L - have > 0
                => IF have + n >= L
                   THEN LET d == Last(dispatched')
                            k == Len(d.payload)
                        IN /\ Len(dispatched') = Len(dispatched) + 1
                           /\ d.length = L
                           /\ PayloadLen(d.payload) = L
                           /\ PieceSize(d.payload[k]) = n
                           /\ IncomingPackets'[cid].payload = << >>
                           /\ (\A i \in 1..(k - 1) : PieceSize(d.payload[i]) = X)
                                => k = (L + X - 1) \div X
                   ELSE /\ dispatched' = dispatched
                        /\ PayloadLen(IncomingPackets'[cid].payload) = have + n ]_vars

\* SET_CHUNK_SIZE(8192), then an AUDIO message of 20000 bytes that arrived
\* as 8192 + 8192 + 3616.
C18_Witness ==
    \E i, j \in 1..Len(dispatched) :
        /\ i < j
        /\ dispatched[i].type = RTMP_TYPE_SET_CHUNK_SIZE
        /\ PayloadInt(dispatched[i].payload) = 8192
        /\ dispatched[j].type = RTMP_TYPE_AUDIO
        /\ dispatched[j].length = 20000
        /\ Len(dispatched[j].payload) = 3
        /\ PieceSize(dispatched[j].payload[1]) = 8192
        /\ PieceSize(dispatched[j].payload[2]) = 8192
        /\ PieceSize(dispatched[j].payload[3]) = 3616

AckCount == Len(SelectSeq(sent, LAMBDA m : m.type = RTMP_TYPE_ACKNOWLEDGEMENT))

\* C19: with a window W > 0 that has not changed since the connection
\* began (no peer of this part sends WINDOW_ACKNOWLEDGEMENT_SIZE), after
\* bytesIn bytes the server has sent floor(bytesIn / W) ACK messages.
C19_AckCount ==
    (cpc = "run" /\ window_acknowledgement_size > 0)
    => AckCount = bytesIn \div window_acknowledgement_size
\* The payload pieces of a dispatched message, joined: a whole content
\* [id, 0, size] when the pieces are consecutive.
RECURSIVE Joined(_)
Joined(q) ==
    IF Len(q) <= 1 THEN q
    ELSE LET rest == Joined(Tail(q))
         IN IF Head(q).id = rest[1].id /\ Head(q).hi = rest[1].lo
            THEN << [Head(q) EXCEPT !.hi = rest[1].hi] >> \o Tail(rest)
            ELSE << Head(q) >> \o rest

\* C15: the k-th message the decoder dispatches from the encoder's bytes
\* equals the k-th message given to writeMessage in type, stream id,
\* timestamp and payload bytes.
C15_RoundTrip ==
    \A k \in 1..Len(dispatched) :
        /\ k <= Len(written)
        /\ dispatched[k].type = written[k].type
        /\ dispatched[k].stream_id = written[k].streamId
        /\ dispatched[k].timestamp = written[k].time
        /\ Joined(dispatched[k].payload)
               = << [id |-> written[k].data, lo |-> 0, hi |-> written[k].size] >>

\* C21: a publish with an empty stream key leaves the publisher registry as
\* it is, writes an onStatus message of level error to the sender and leaves
\* the sender with nothing to do but its teardown, which removes it from the
\* session table.
C21_EmptyStreamKeyRejected ==
    [][ \A s \in DOMAIN client_states :
          /\ \A sid \in StreamIds :
                handle_publish(s, "", sid)
                   => /\ LiveUsers' = LiveUsers
                      /\ Len(out'[s]) = Len(out[s]) + 1
                      /\ SubSeq(out'[s], 1, Len(out[s])) = out[s]
                      /\ Last(out'[s]).name = "onStatus"
                      /\ Last(out'[s]).level = "error"
                      /\ Last(out'[s]).id = sid
                      /\ pc'[s] = "closing"
          /\ (pc[s] = "closing" /\ pc'[s] # pc[s])
                => (pc'[s] = "done" /\ s \notin DOMAIN client_states') ]_vars

\* The sender of a publish with an empty key on an app without a publisher,
\* suspended after the error status.
C21_Witness ==
    \E s \in DOMAIN client_states :
        /\ pc[s] = "closing"
        /\ client_states[s].streamPath = ""
        /\ client_states[s].app \notin DOMAIN LiveUsers
        /\ out[s] # << >>
        /\ Last(out[s]).code = "NetStream.publish.Unauthorized"

\* C22: a connect without an app, or with an empty one, on a session that has
\* no app ends the session: it is removed from the session table, nothing is
\* written to it, no reply is left to send, and the command's tcUrl (swfUrl,
\* flashVer, objectEncoding) is not copied into its ClientState.
C22_EmptyAppRejected ==
    [][ \A s \in DOMAIN client_states : \A a \in {None, ""} :
          (Connect(s, a) /\ client_states[s].app = "")
             => /\ pc'[s] = "done"
                /\ s \notin DOMAIN client_states'
                /\ out'[s] = out[s]
                /\ todo'[s] = << >>
                /\ ConnectState(client_states[s], a).tcUrl = None ]_vars

\* A session without an app that can be sent a connect, next to a session
\* whose connect was accepted.
C22_Witness ==
    \E s, t \in DOMAIN client_states :
        /\ pc[s] = "run"
        /\ clock < MaxMsgs
        /\ client_states[s].app = ""
        /\ client_states[s].tcUrl = None
        /\ out[s] = << >>
        /\ client_states[t].tcUrl # None

\* C23: a session whose C0 was neither 0x03 nor 0x06 (its writer has been
\* closed by perform_handshake) is in the handshake or torn down, never in
\* the chunk loop and never left in the session table by a task that ended.
C23_BadVersionFails ==
    \A s \in Ids :
        writerClosed[s]
           => \/ pc[s] = "hs_closed"
              \/ (pc[s] = "done" /\ s \notin DOMAIN client_states)

\* A step writes an AUDIO message to the session t.
AudioWrittenTo(t) ==
    /\ Len(out'[t]) > Len(out[t])
    /\ Last(out'[t]).type = RTMP_TYPE_AUDIO

\* t is in the fan-out table of a publisher that is registered and alive.
AttachedToLivePublisher(t) ==
    \E a \in DOMAIN LiveUsers :
        /\ LiveUsers[a].client_id \in DOMAIN client_states
        /\ t \in client_states[LiveUsers[a].client_id].Players

\* C26: the teardown of a publisher leaves its players in the session table,
\* each where it was; and an AUDIO message is written to a session only while
\* the session is in the fan-out table of a registered, living publisher: a
\* session enters such a table by a play of its own and by nothing else, so a
\* player of a destroyed publisher gets no media before it plays again.
C26_NoMediaAfterPublisherGone ==
    [][ /\ \A s \in DOMAIN client_states :
              (IsPublisher(s) /\ s \notin DOMAIN client_states')
                 => \A t \in (client_states[s].Players \ {s}) \cap DOMAIN client_states :
                        t \in DOMAIN client_states' /\ pc'[t] = pc[t]
        /\ \A t \in Ids : AudioWrittenTo(t) => AttachedToLivePublisher(t) ]_vars

\* C27: an AUDIO message written to a player carries the message stream id of
\* the player's play request, which is the stream id of the onMetaData
\* written to the player in reply to that request (the last one before the
\* AUDIO message).
C27_RelayedStreamId ==
    \A t \in Ids : \A i, j \in 1..Len(out[t]) :
        ( /\ i < j
          /\ out[t][i].name = "onMetaData"
          /\ out[t][j].type = RTMP_TYPE_AUDIO
          /\ \A k \in (i + 1)..(j - 1) : out[t][k].name # "onMetaData" )
           => out[t][j].streamId = out[t][i].streamId

\* C25: a SET_CHUNK_SIZE message with a value above 10485760 ends the session
\* and leaves chunk_size as it was; with a value up to 10485760 the session
\* goes on and chunk_size is that value.
C25_ChunkSizeLimit ==
    [][ \A c \in PeerChunks :
          (PeerChunk(c) /\ c.fmt <= 1 /\ c.type = RTMP_TYPE_SET_CHUNK_SIZE)
             => IF c.id > 10485760
                THEN cpc' = "done" /\ chunk_size' = chunk_size
                ELSE cpc' = "run" /\ chunk_size' = c.id ]_vars

\* A session ended by a SET_CHUNK_SIZE, with the chunk size an earlier
\* SET_CHUNK_SIZE gave it.
C25_Witness ==
    /\ cpc = "done"
    /\ chunk_size = 8192
    /\ SetChunkSizes # << >>

\* C29: the message stream id of a message dispatched on a fmt 0 chunk is the
\* little-endian value of the four stream id bytes of that chunk's header.
C29_StreamIdLittleEndian ==
    [][ \A c \in PeerChunks :
          (PeerChunk(c) /\ c.fmt = 0 /\ Len(dispatched') > Len(dispatched))
             => Last(dispatched').stream_id
                   = c.sid[1] + 256 * c.sid[2] + 65536 * c.sid[3]
                       + 16777216 * c.sid[4] ]_vars

\* The message type id of the slot a chunk selects, once its header is read.
SlotType(c) ==
    LET cid == BasicHeaderCid(c.csid, c.b1, c.b2)
    IN IF c.fmt <= 1 THEN c.type
       ELSE IF cid \in DOMAIN IncomingPackets THEN IncomingPackets[cid].msg_type_id
       ELSE createPacket.msg_type_id

\* C24: a chunk whose slot has a message type id above 22 ends the session
\* and dispatches nothing; a message of a type handle_rtmp_packet has no
\* branch for (4, 7, 15, 16, 19, 22) is dispatched and changes nothing: the
\* session goes on, with its chunk size, window, stream counter and written
\* messages as they were.
C24_UnknownTypeCloses ==
    [][ \A c \in ControlChunks :
          PeerChunk(c)
             => /\ SlotType(c) > 22
                   => (cpc' = "done" /\ dispatched' = dispatched)
                /\ SlotType(c) \in UnhandledTypes
                   => /\ cpc' = "run"
                      /\ Len(dispatched') = Len(dispatched) + 1
                      /\ Last(dispatched').type = SlotType(c)
                      /\ UNCHANGED <<chunk_size, window_acknowledgement_size,
                                     streams, sent>> ]_vars

\* A message of an unhandled type has been dispatched, and then a chunk of
\* type 23 has ended the session.
C24_Witness ==
    /\ cpc = "done"
    /\ dispatched # << >>
    /\ Last(dispatched).type \in UnhandledTypes

\* C28: when an ABORT message has been dispatched, the reassembly slot of the
\* chunk stream id it names holds no payload.
C28_AbortClearsSlot ==
    [][ \A c \in ControlChunks :
          (PeerChunk(c) /\ c.fmt <= 1 /\ c.type = RTMP_TYPE_ABORT /\ cpc' = "run")
             => (c.id \in DOMAIN IncomingPackets'
                    => IncomingPackets'[c.id].payload = << >>) ]_vars

\* C30: a task that is waiting to read C2 has written S0, S1 and S2, in this
\* order.
C30_S2BeforeC2 ==
    \A s \in Ids :
        pc[s] \in {"read_c2_simple", "read_c2_digest"}
           => /\ Len(out[s]) = 3
              /\ out[s][1].name = "S0"
              /\ out[s][2].name = "S1"
              /\ out[s][3].name = "S2"

\* C31: a video message that is not a sequence start (an ordinary coded key
\* frame, an inter frame) leaves the sender's latched video sequence header
\* as it is.
C31_VideoHeaderLatch ==
    [][ \A s \in DOMAIN client_states : \A p \in VideoPayloads \ {"avc_seq"} :
          handle_video_data(s, p)
             => client_states'[s].avcSequenceHeader
                   = client_states[s].avcSequenceHeader ]_vars

\* The ids in the player dict of the app a.
PlayersOf(a) == IF a \in DOMAIN PlayerUsers THEN Range(PlayerUsers[a].ids) ELSE {}

\* C33: for every app whose publisher record names a session of the session
\* table, the sessions in the app's player dict are the sessions in that
\* publisher's fan-out table (Players).
C33_AttachIsOneStep ==
    \A a \in DOMAIN LiveUsers :
        LiveUsers[a].client_id \in DOMAIN client_states
           => PlayersOf(a) = client_states[LiveUsers[a].client_id].Players

\* C34: the next turn of a publisher's suspended relay loop leaves the
\* publisher in the session table and the publisher registry as it is,
\* whatever other sessions did to the player dict meanwhile.
C34_RelaySurvivesAttachDetach ==
    [][ \A s \in Ids :
          (RelayNext(s) /\ IsPublisher(s))
             => /\ pc'[s] # "done"
                /\ s \in DOMAIN client_states'
                /\ LiveUsers' = LiveUsers ]_vars

\* C35: every publisher record names a session that is in the session table
\* and whose current app is the record's key.
C35_PublisherRecordsLive ==
    \A a \in DOMAIN LiveUsers :
        /\ LiveUsers[a].client_id \in DOMAIN client_states
        /\ client_states[LiveUsers[a].client_id].app = a

\* C36: an AUDIO message of the session s is written to another session t
\* only when s is the registered publisher of an app that has t in its
\* player dict.
C36_OnlyPublisherRelays ==
    [][ \A s, t \in Ids :
          (s # t /\ AudioWrittenTo(t) /\ Last(out'[t]).src = s)
             => \E a \in DOMAIN LiveUsers :
                    LiveUsers[a].client_id = s /\ t \in PlayersOf(a) ]_vars

\* C37: neither the publisher registry nor the player dicts have an entry
\* for the empty app name.
C37_NoEmptyApp ==
    "" \notin DOMAIN LiveUsers /\ "" \notin DOMAIN PlayerUsers

\* C39: a turn of a publisher's relay loop ends the publisher only when the
\* player dict has changed under the loop, never because of the player it
\* writes to (one without a session record, one with a closed writer); and
\* when the loop ends, the message has been written to every session of the
\* dict that has a session record.
C39_RelaySurvivesFailedWrite ==
    [][ \A s \in Ids :
          LET r == relay[s]
              alive == r.app \in DOMAIN PlayerUsers
                          /\ PlayerUsers[r.app].creator = r.creator
          IN /\ (RelayNext(s) /\ pc'[s] = "done")
                   => \/ ~alive
                      \/ Len(PlayerUsers[r.app].ids) # r.size
                      \/ ~(r.visited \subseteq PlayersOf(r.app))
             /\ (RelayNext(s) /\ pc'[s] = "run")
                   => \A t \in PlayersOf(r.app) \cap DOMAIN client_states :
                          \E i \in 1..Len(out[t]) : out[t][i] = r.msg ]_vars

\* A publisher's loop that has passed a player without a session record,
\* to which nothing was written, and has written the message to another.
C39_Witness ==
    \E s, t, u \in Ids :
        /\ pc[s] = "relay"
        /\ IsPublisher(s)
        /\ {t, u} \subseteq relay[s].visited
        /\ t \notin DOMAIN client_states
        /\ \A i \in 1..Len(out[t]) : out[t][i] # relay[s].msg
        /\ u \in DOMAIN client_states
        /\ \E i \in 1..Len(out[u]) : out[u][i] = relay[s].msg

\* C40: a DATA message that is not @setDataFrame onMetaData leaves the
\* sender in the session table, in its main loop, with its latched
\* metaDataPayload as it was.
C40_OtherDataIgnored ==
    [][ \A s \in DOMAIN client_states : \A p \in DataPayloads \ {"onMetaData"} :
          handle_amf_data(s, p)
             => /\ s \in DOMAIN client_states'
                /\ pc'[s] = "run"
                /\ client_states'[s].metaDataPayload
                      = client_states[s].metaDataPayload ]_vars

\* C32: the payload of every dispatched message is the content of one chunk
\* stream only, its bytes in wire order from the first to the last, however
\* the chunks of the chunk streams are interleaved.
C32_InterleavedReassembly ==
    \A k \in 1..Len(dispatched) :
        LET q == dispatched[k].payload
        IN /\ \A j \in 1..Len(q) : q[j].id = q[1].id
           /\ Joined(q) = << [id |-> q[1].id, lo |-> 0, hi |-> dispatched[k].length] >>

\* C38: the inbound chunk size of a running connection is between 1 and
\* MAX_CHUNK_SIZE.
C38_ChunkSizeRange ==
    cpc = "run" => (1 <= chunk_size /\ chunk_size <= MAX_CHUNK_SIZE)

====
